---- MODULE Spec2Model ----
(***************************************************************************)
(* Neuvol: genotype factory (cradle), pairing engine (peform_pairing) and  *)
(* fitness evaluator (Evaluator.fit / fit_generator).                      *)
(*                                                                         *)
(* Python objects live on a heap: an individual's architecture is a        *)
(* reference to a list object, its training_parameters and data_processing *)
(* are references to dict objects.  Attribute assignment copies the        *)
(* reference, item assignment writes through it.                           *)
(***************************************************************************)
EXTENDS Integers, Sequences, FiniteSets, TLC

VARIABLES lists, dicts, individs, children, call,
          device, kfold_number, fitness_measure, setter,
          pc, method, task_type, fold, predicted_out, held, raised_in, reduced, result

pairing_vars == <<lists, dicts, individs, children, call>>

evaluator_vars == <<device, kfold_number, fitness_measure, setter,
                    pc, method, task_type, fold, predicted_out, held, raised_in, reduced, result>>

vars == <<pairing_vars, evaluator_vars>>

----------------------------------------------------------------------------
(* Bounds *)

MaxArchLen == 3
MaxShells == 2
MaxFolds == 3

NULL == 0

DataTypes == {"text", "image", "audio"}
PairingTypes == {"father_architecture", "father_architecture_layers",
                 "father_architecture_parameter", "father_training",
                 "father_data_processing"}
PairingTypeInputs == PairingTypes \cup {"mother_architecture"}
BodyTypes == {"lstm", "cnn"}
SentencesLengths == {10, 20}

----------------------------------------------------------------------------
(* Python primitives on the heap h = [lists, dicts, individs] *)

range(a, b) == a .. (b - 1)

getattr(h, o, f) == h.individs[o][f]

setattr(h, o, f, v) == [h EXCEPT !.individs[o][f] = v]

list_getitem(h, l, i) == h.lists[l][i + 1]

list_setitem(h, l, i, v) == [h EXCEPT !.lists[l][i + 1] = v]

dict_getitem(h, d, k) == h.dicts[d][k]

dict_setitem(h, d, k, v) == [h EXCEPT !.dicts[d][k] = v]

len(h, l) == Len(h.lists[l])

\* [layer.type for layer in architecture[1:-1]]
body_types(h, l) == [i \in 1 .. (IF len(h, l) >= 2 THEN len(h, l) - 2 ELSE 0) |->
                        h.lists[l][i + 1].type]

\* list.index: zero-based position of the first occurrence
index(s, v) == (CHOOSE i \in 1 .. Len(s) : s[i] = v /\ \A j \in 1 .. (i - 1) : s[j] # v) - 1

elements(s) == {s[i] : i \in 1 .. Len(s)}

Returned(individ) == [kind |-> "individ", id |-> individ]
ReturnedNone == [kind |-> "None", id |-> NULL]
Raised(e) == [kind |-> e, id |-> NULL]

----------------------------------------------------------------------------
(* The five pairing strategies *)

father_architecture_pairing(h, individ, father, mother) ==
    LET h1 == setattr(h, individ, "architecture", getattr(h, father, "architecture"))
        h2 == setattr(h1, individ, "training_parameters", getattr(h1, mother, "training_parameters"))
        h3 == setattr(h2, individ, "data_processing", getattr(h2, mother, "data_processing"))
        h4 == dict_setitem(h3, getattr(h3, individ, "data_processing"), "sentences_length",
                           dict_getitem(h3, getattr(h3, father, "data_processing"), "sentences_length"))
    IN  [heap |-> h4, ret |-> Returned(individ)]

\* faulty variant: the range starts at 0
layer_choices_zero_based(h, o) == range(0, len(h, getattr(h, o, "architecture")))

\* range(1, len(architecture)): the candidates of both random draws
layer_choices(h, o) == range(1, len(h, getattr(h, o, "architecture")))

\* faulty variant: the substituted gene lands one position too low
father_architecture_layers_pairing_off_by_one(h, individ, father, mother, changes_layer, alter_layer) ==
    LET h1 == setattr(h, individ, "architecture", getattr(h, father, "architecture"))
        h2 == list_setitem(h1, getattr(h1, individ, "architecture"), changes_layer - 1,
                           list_getitem(h1, getattr(h1, mother, "architecture"), alter_layer))
        h3 == setattr(h2, individ, "training_parameters", getattr(h2, father, "training_parameters"))
        h4 == setattr(h3, individ, "data_processing", getattr(h3, father, "data_processing"))
    IN  [heap |-> h4, ret |-> Returned(individ)]

father_architecture_layers_pairing(h, individ, father, mother, changes_layer, alter_layer) ==
    LET h1 == setattr(h, individ, "architecture", getattr(h, father, "architecture"))
        h2 == list_setitem(h1, getattr(h1, individ, "architecture"), changes_layer,
                           list_getitem(h1, getattr(h1, mother, "architecture"), alter_layer))
        h3 == setattr(h2, individ, "training_parameters", getattr(h2, father, "training_parameters"))
        h4 == setattr(h3, individ, "data_processing", getattr(h3, father, "data_processing"))
    IN  [heap |-> h4, ret |-> Returned(individ)]

intersections(h, father, mother) ==
    elements(body_types(h, getattr(h, father, "architecture")))
        \cap elements(body_types(h, getattr(h, mother, "architecture")))

father_architecture_parameter_pairing(h, individ, father, mother, intersected_layer) ==
    LET tmp_father == body_types(h, getattr(h, father, "architecture"))
        tmp_mother == body_types(h, getattr(h, mother, "architecture"))
        f1 == setattr(h, individ, "architecture", getattr(h, father, "architecture"))
        f2 == setattr(f1, individ, "training_parameters", getattr(f1, father, "training_parameters"))
        f3 == setattr(f2, individ, "data_processing", getattr(f2, father, "data_processing"))
    IN  IF intersections(h, father, mother) = {}
        THEN \* the fallback branch does not return: np.random.choice([]) raises
             [heap |-> f3, ret |-> Raised("ValueError")]
        ELSE LET changes_layer == index(tmp_father, intersected_layer) + 1
                 alter_layer == index(tmp_mother, intersected_layer) + 1
                 h1 == setattr(h, individ, "architecture", getattr(h, father, "architecture"))
                 h2 == list_setitem(h1, getattr(h1, individ, "architecture"), changes_layer,
                                    list_getitem(h1, getattr(h1, mother, "architecture"), alter_layer))
                 h3 == setattr(h2, individ, "training_parameters", getattr(h2, father, "training_parameters"))
                 h4 == setattr(h3, individ, "data_processing", getattr(h3, father, "data_processing"))
             IN  [heap |-> h4, ret |-> Returned(individ)]

father_data_processing_pairing(h, individ, father, mother) ==
    LET h1 == setattr(h, individ, "architecture", getattr(h, mother, "architecture"))
        h2 == setattr(h1, individ, "training_parameters", getattr(h1, mother, "training_parameters"))
        h3 == setattr(h2, individ, "data_processing", getattr(h2, father, "data_processing"))
        h4 == list_setitem(h3, getattr(h3, individ, "architecture"), 0,
                           list_getitem(h3, getattr(h3, father, "architecture"), 0))
    IN  [heap |-> h4, ret |-> Returned(individ)]

father_training_pairing(h, individ, father, mother) ==
    LET h1 == setattr(h, individ, "architecture", getattr(h, mother, "architecture"))
        h2 == setattr(h1, individ, "training_parameters", getattr(h1, father, "training_parameters"))
        h3 == setattr(h2, individ, "data_processing", getattr(h2, mother, "data_processing"))
    IN  [heap |-> h3, ret |-> Returned(individ)]

\* faulty variant: an unrecognised tag falls into the last strategy
peform_pairing_default_strategy(h, individ, father, mother, pairing_type, draw) ==
    IF pairing_type = "father_architecture"
    THEN father_architecture_pairing(h, individ, father, mother)
    ELSE IF pairing_type = "father_architecture_layers"
    THEN father_architecture_layers_pairing(h, individ, father, mother,
                                            draw.changes_layer, draw.alter_layer)
    ELSE IF pairing_type = "father_architecture_parameter"
    THEN father_architecture_parameter_pairing(h, individ, father, mother, draw.intersected_layer)
    ELSE IF pairing_type = "father_training"
    THEN father_training_pairing(h, individ, father, mother)
    ELSE father_data_processing_pairing(h, individ, father, mother)

\* draw = the values np.random.choice hands to the selected strategy
peform_pairing(h, individ, father, mother, pairing_type, draw) ==
    IF pairing_type = "father_architecture"
    THEN father_architecture_pairing(h, individ, father, mother)
    ELSE IF pairing_type = "father_architecture_layers"
    THEN father_architecture_layers_pairing(h, individ, father, mother,
                                            draw.changes_layer, draw.alter_layer)
    ELSE IF pairing_type = "father_architecture_parameter"
    THEN father_architecture_parameter_pairing(h, individ, father, mother, draw.intersected_layer)
    ELSE IF pairing_type = "father_training"
    THEN father_training_pairing(h, individ, father, mother)
    ELSE IF pairing_type = "father_data_processing"
    THEN father_data_processing_pairing(h, individ, father, mother)
    ELSE [heap |-> h, ret |-> ReturnedNone]

NoDraw == [changes_layer |-> 0, alter_layer |-> 0, intersected_layer |-> "none"]

\* the outcomes of the np.random.choice calls the selected strategy makes
Draws(h, father, mother, pairing_type) ==
    IF pairing_type = "father_architecture_layers"
    THEN {[NoDraw EXCEPT !.changes_layer = c, !.alter_layer = a] :
             c \in layer_choices(h, father), a \in layer_choices(h, mother)}
    ELSE IF pairing_type = "father_architecture_parameter" /\ intersections(h, father, mother) # {}
    THEN {[NoDraw EXCEPT !.intersected_layer = t] : t \in intersections(h, father, mother)}
    ELSE {NoDraw}

----------------------------------------------------------------------------
(* State *)

Heap == [lists |-> lists, dicts |-> dicts, individs |-> individs]

\* an individual whose gene groups the pairing has not written yet
Shell == [architecture |-> NULL, training_parameters |-> NULL, data_processing |-> NULL]

IsShell(o) == /\ individs[o].architecture = NULL
              /\ individs[o].training_parameters = NULL
              /\ individs[o].data_processing = NULL

HasGenotype(o) == /\ individs[o].architecture # NULL
                  /\ individs[o].training_parameters # NULL
                  /\ individs[o].data_processing # NULL

\* an architecture: input gene, body genes, output gene; ids are object identities
Architecture(body, base) ==
    <<[type |-> "embedding", id |-> base + 1]>>
      \o [i \in 1 .. Len(body) |-> [type |-> body[i], id |-> base + 1 + i]]
      \o <<[type |-> "dense", id |-> base + Len(body) + 2]>>

Bodies == UNION {[1 .. n -> BodyTypes] : n \in 0 .. (MaxArchLen - 2)}

\* the record of the last factory or pairing call: arguments, random draws,
\* outcome, and the heap as it was when the call was made
CallRecord(op, type, individ, father, mother, draw, ret, pre) ==
    [op |-> op, type |-> type, individ |-> individ, father |-> father, mother |-> mother,
     draw |-> draw, ret |-> ret, pre |-> pre]

\* two individuals with a genotype, followed by the shells handed in.  An
\* individual produced by an earlier father_architecture pairing holds the very
\* list object of its parent and that parent's sentences_length: shared says
\* that mother is such a child of father.
Founders(fb, mb, fs, ms, shared, shells) ==
    /\ lists = <<Architecture(fb, 0), Architecture(mb, MaxArchLen)>>
    /\ dicts = <<[epochs |-> 1, batchs |-> 8],
                 [sentences_length |-> fs],
                 [epochs |-> 2, batchs |-> 16],
                 [sentences_length |-> ms]>>
    /\ individs = <<[architecture |-> 1,
                     training_parameters |-> 1, data_processing |-> 2],
                    [architecture |-> IF shared THEN 1 ELSE 2,
                     training_parameters |-> 3, data_processing |-> 4]>> \o shells
    /\ children = {}
    /\ call = CallRecord("none", "none", NULL, NULL, NULL, NoDraw, Raised("none"), Heap)

\* one pairing call: father, mother and a fresh shell
PairingInit ==
    \E fb \in Bodies, mb \in Bodies, fs \in SentencesLengths, ms \in SentencesLengths,
       shared \in BOOLEAN :
        /\ shared => (mb = fb /\ ms = fs)
        /\ Founders(fb, mb, fs, ms, shared, <<Shell>>)

FounderBodies == {<<>>, <<"lstm">>, <<"cnn">>}

\* a population that grows by factory and pairing calls
PopulationInit ==
    \E mb \in FounderBodies : Founders(<<"lstm">>, mb, 10, 20, FALSE, <<>>)

----------------------------------------------------------------------------
(* Genotype factory *)

NumShellsMade == Len(individs) - 2

\* the caller makes a shell and hands it to the pairing before it makes the next
NoShellPending == \A o \in 1 .. Len(individs) : ~IsShell(o)

\* neuvol/architecture/cradle.py
cradle(h, data_type) ==
    IF data_type = "text" \/ data_type = "image"
    THEN [heap |-> [h EXCEPT !.individs = Append(h.individs, Shell)],
          ret |-> [kind |-> IF data_type = "text" THEN "IndividText" ELSE "IndividImage",
                   id |-> Len(h.individs) + 1]]
    ELSE [heap |-> h, ret |-> Raised("ValueError")]

\* neuvol/architecture/architecture_interface.py: no else branch
cradle_interface(h, data_type) ==
    IF data_type = "text" \/ data_type = "image"
    THEN [heap |-> [h EXCEPT !.individs = Append(h.individs, Shell)],
          ret |-> [kind |-> IF data_type = "text" THEN "IndividText" ELSE "IndividImage",
                   id |-> Len(h.individs) + 1]]
    ELSE [heap |-> h, ret |-> ReturnedNone]

Cradle(data_type) ==
    /\ NumShellsMade < MaxShells
    /\ NoShellPending
    /\ LET out == cradle(Heap, data_type)
       IN  /\ individs' = out.heap.individs
           /\ call' = CallRecord("cradle", data_type, NULL, NULL, NULL, NoDraw, out.ret, Heap)
    /\ UNCHANGED <<lists, dicts, children>>
    /\ UNCHANGED evaluator_vars

CradleInterface(data_type) ==
    /\ NumShellsMade < MaxShells
    /\ NoShellPending
    /\ LET out == cradle_interface(Heap, data_type)
       IN  /\ individs' = out.heap.individs
           /\ call' = CallRecord("architecture_interface.cradle", data_type, NULL, NULL, NULL,
                                 NoDraw, out.ret, Heap)
    /\ UNCHANGED <<lists, dicts, children>>
    /\ UNCHANGED evaluator_vars

----------------------------------------------------------------------------
(* Pairing engine *)

PeformPairing(individ, father, mother, pairing_type) ==
    /\ IsShell(individ)
    /\ HasGenotype(father)
    /\ HasGenotype(mother)
    /\ father # mother
    /\ \E draw \in Draws(Heap, father, mother, pairing_type) :
         LET out == peform_pairing(Heap, individ, father, mother, pairing_type, draw)
         IN  /\ lists' = out.heap.lists
             /\ dicts' = out.heap.dicts
             /\ individs' = out.heap.individs
             /\ children' = IF out.ret.kind = "individ" THEN children \cup {out.ret.id}
                            ELSE children
             /\ call' = CallRecord("peform_pairing", pairing_type, individ, father, mother,
                                   draw, out.ret, Heap)
    /\ UNCHANGED evaluator_vars

PairingNext ==
    \/ \E data_type \in DataTypes : Cradle(data_type)
    \/ \E data_type \in DataTypes : CradleInterface(data_type)
    \/ \E individ \in 1 .. Len(individs), father \in 1 .. Len(individs),
          mother \in 1 .. Len(individs), pairing_type \in PairingTypeInputs :
            PeformPairing(individ, father, mother, pairing_type)

----------------------------------------------------------------------------
(* Fitness evaluator *)

DeviceInputs == {"cpu", "gpu", "tpu"}
MeasureInputs == {"AUC", "f1", "accuracy"}
TaskTypes == {"classification", "regression"}
Methods == {"fit", "fit_generator"}

NoResult == [kind |-> "none", value |-> <<>>, error |-> "none"]
Score(measure, predictions) == [kind |-> "score", value |-> <<measure, predictions>>, error |-> "none"]
Failure(e) == [kind |-> "error", value |-> <<>>, error |-> e]

\* Evaluator.__init__: the device string of an accepted device argument
init_device(d) == IF d = "cpu" THEN "/device:CPU:0" ELSE "/device:GPU:0"

\* Evaluator.device setter: the raw argument is stored before it is checked
device_setter(d) ==
    IF d = "cpu" THEN [device |-> "/device:CPU:0", ret |-> "None"]
    ELSE IF d = "gpu" THEN [device |-> "/device:GPU:0", ret |-> "None"]
    ELSE [device |-> d, ret |-> "ValueError"]

\* faulty variant: a fold that raises is skipped and the loop goes on
fit_fold_skips_failed_fold(raises, predictions, k) ==
    IF raises
    THEN [pc |-> "release", error |-> "none", predicted_out |-> predictions]
    ELSE [pc |-> "release", error |-> "none", predicted_out |-> Append(predictions, k)]

\* one fold of Evaluator.fit, from compile to the end of the try block
fit_fold(raises, predictions, k) ==
    IF raises
    THEN [pc |-> "failed", error |-> "ArithmeticError", predicted_out |-> predictions]
    ELSE [pc |-> "release", error |-> "none", predicted_out |-> Append(predictions, k)]

\* one fold of Evaluator.fit_generator: no try block, the exception propagates
fit_generator_fold(raises, predictions, k) ==
    IF raises
    THEN [pc |-> "failed", error |-> "Exception", predicted_out |-> predictions]
    ELSE [pc |-> "release", error |-> "none", predicted_out |-> Append(predictions, k)]

\* Evaluator.test_classification: the reduction of the accumulated predictions
test_classification(measure, predictions) ==
    IF measure = "f1" \/ measure = "AUC"
    THEN Score(measure, predictions)
    ELSE Failure("TypeError")

\* the tail of fit / fit_generator after the fold loop
reduce(task, measure, predictions) ==
    IF task = "classification"
    THEN test_classification(measure, predictions)
    ELSE Failure("UnboundLocalError")

EvaluatorIdle ==
    /\ fitness_measure = "AUC"
    /\ setter = "none"
    /\ pc = "idle"
    /\ method = "none"
    /\ task_type = "none"
    /\ fold = 0
    /\ predicted_out = <<>>
    /\ held = {}
    /\ raised_in = {}
    /\ reduced = FALSE
    /\ result = NoResult

EvaluatorInit ==
    /\ \E d \in {"cpu", "gpu"} : device = init_device(d)
    /\ kfold_number \in 1 .. MaxFolds
    /\ EvaluatorIdle

Callable == pc \in {"idle", "returned", "failed"}

SetDevice(d) ==
    /\ Callable
    /\ device' = device_setter(d).device
    /\ setter' = device_setter(d).ret
    /\ UNCHANGED <<kfold_number, fitness_measure, pc, method, task_type, fold,
                   predicted_out, held, raised_in, reduced, result>>
    /\ UNCHANGED pairing_vars

SetFitnessMeasure(m) ==
    /\ Callable
    /\ fitness_measure' = m
    /\ setter' = "None"
    /\ UNCHANGED <<device, kfold_number, pc, method, task_type, fold,
                   predicted_out, held, raised_in, reduced, result>>
    /\ UNCHANGED pairing_vars

\* entry of fit / fit_generator up to the fold loop
CallFit(m, t) ==
    /\ Callable
    /\ method' = m
    /\ task_type' = t
    /\ predicted_out' = <<>>
    /\ fold' = 1
    /\ raised_in' = {}
    /\ reduced' = FALSE
    /\ result' = NoResult
    /\ pc' = "fold"
    /\ UNCHANGED <<device, kfold_number, fitness_measure, setter, held>>
    /\ UNCHANGED pairing_vars

\* with tf.device(...): network.init_tf_graph() builds the fold's graph
FoldAcquire ==
    /\ pc = "fold"
    /\ held' = held \cup {fold}
    /\ pc' = "training"
    /\ UNCHANGED <<device, kfold_number, fitness_measure, setter, method, task_type,
                   fold, predicted_out, raised_in, reduced, result>>
    /\ UNCHANGED pairing_vars

\* compile, fit and predict of the current fold; raises is the collaborator's outcome
FoldTrain(raises) ==
    /\ pc = "training"
    /\ LET out == IF method = "fit" THEN fit_fold(raises, predicted_out, fold)
                  ELSE fit_generator_fold(raises, predicted_out, fold)
       IN  /\ pc' = out.pc
           /\ predicted_out' = out.predicted_out
           /\ result' = IF out.pc = "failed" THEN Failure(out.error) ELSE result
    /\ raised_in' = IF raises THEN raised_in \cup {fold} ELSE raised_in
    /\ UNCHANGED <<device, kfold_number, fitness_measure, setter, method, task_type,
                   fold, held, reduced>>
    /\ UNCHANGED pairing_vars

\* tf.reset_default_graph(); K.clear_session(); then the next fold or the loop's end
FoldRelease ==
    /\ pc = "release"
    /\ held' = {}
    /\ IF fold < kfold_number
       THEN /\ fold' = fold + 1
            /\ pc' = "fold"
       ELSE /\ fold' = fold
            /\ pc' = "reduce"
    /\ UNCHANGED <<device, kfold_number, fitness_measure, setter, method, task_type,
                   predicted_out, raised_in, reduced, result>>
    /\ UNCHANGED pairing_vars

Reduce ==
    /\ pc = "reduce"
    /\ result' = reduce(task_type, fitness_measure, predicted_out)
    /\ reduced' = (task_type = "classification")
    /\ pc' = IF reduce(task_type, fitness_measure, predicted_out).kind = "score"
             THEN "returned" ELSE "failed"
    /\ UNCHANGED <<device, kfold_number, fitness_measure, setter, method, task_type,
                   fold, predicted_out, held, raised_in>>
    /\ UNCHANGED pairing_vars

EvaluatorNext ==
    \/ \E d \in DeviceInputs : SetDevice(d)
    \/ \E m \in MeasureInputs : SetFitnessMeasure(m)
    \/ \E m \in Methods, t \in TaskTypes : CallFit(m, t)
    \/ FoldAcquire
    \/ \E raises \in BOOLEAN : FoldTrain(raises)
    \/ FoldRelease
    \/ Reduce

----------------------------------------------------------------------------
(* Specifications *)

\* the evaluator, constructed and never used, beside the pairing engine
EvaluatorUnused ==
    /\ device = init_device("cpu")
    /\ kfold_number = 1
    /\ EvaluatorIdle

\* one fixed pair of individuals beside the evaluator
PairingUnused == Founders(<<>>, <<>>, 10, 20, FALSE, <<>>)

Init == PairingInit /\ EvaluatorUnused

Next ==
    \E individ \in 1 .. Len(individs), father \in 1 .. Len(individs),
       mother \in 1 .. Len(individs), pairing_type \in PairingTypeInputs :
         PeformPairing(individ, father, mother, pairing_type)

Spec == Init /\ [][Next]_vars

PopInit == PopulationInit /\ EvaluatorUnused

PopNext == PairingNext

PopulationSpec == PopInit /\ [][PopNext]_vars

EvalInit == EvaluatorInit /\ PairingUnused

EvalNext == EvaluatorNext

EvalSpec == EvalInit /\ [][EvalNext]_vars

----------------------------------------------------------------------------
(* Properties of the pairing engine (Spec) and of the factory and of
   sequences of pairings (PopulationSpec) *)

\* the gene groups of individual o as values, read through its references
genotype(h, o) ==
    [architecture |-> h.lists[h.individs[o].architecture],
     training_parameters |-> h.dicts[h.individs[o].training_parameters],
     data_processing |-> h.dicts[h.individs[o].data_processing]]

architecture_of(h, o) == h.lists[h.individs[o].architecture]

Paired == call.op = "peform_pairing"

PairedAs(pairing_type) == Paired /\ call.type = pairing_type

\* father and mother were two individuals that share no list or dict object
WellFormedParents ==
    /\ call.pre.individs[call.father].architecture # call.pre.individs[call.mother].architecture
    /\ call.pre.individs[call.father].training_parameters
         # call.pre.individs[call.mother].training_parameters
    /\ call.pre.individs[call.father].data_processing
         # call.pre.individs[call.mother].data_processing

\* C1: for each of the five pairing types a peform_pairing call leaves the
\* architecture, training_parameters and data_processing of father and of
\* mother exactly as they were before the call.
C1_ParentsUntouched ==
    (Paired /\ call.type \in PairingTypes) =>
        /\ genotype(Heap, call.father) = genotype(call.pre, call.father)
        /\ genotype(Heap, call.mother) = genotype(call.pre, call.mother)

\* C2: for each of the five pairing types and well-formed parents the call
\* returns an individual with all three gene groups set whose sentences_length
\* is that of the parent whose gene sits at index 0 of the returned architecture.
C2_ChildCompleteAndConsistent ==
    (Paired /\ call.type \in PairingTypes /\ WellFormedParents) =>
        /\ call.ret.kind = "individ"
        /\ HasGenotype(call.individ)
        /\ \A parent \in {call.father, call.mother} :
              architecture_of(Heap, call.individ)[1] = architecture_of(call.pre, parent)[1]
                => genotype(Heap, call.individ).data_processing["sentences_length"]
                     = genotype(call.pre, parent).data_processing["sentences_length"]

\* C3: father_architecture_parameter pairing of parents whose body genes share
\* no layer type does not fail and returns the individual with father's
\* architecture, training_parameters and data_processing.
C3_EmptyIntersectionFallsBackToFather ==
    (PairedAs("father_architecture_parameter")
        /\ intersections(call.pre, call.father, call.mother) = {}) =>
        /\ call.ret = Returned(call.individ)
        /\ genotype(Heap, call.individ) = genotype(call.pre, call.father)

\* C4 as stated: in father_architecture_layers pairing the mother-side index is
\* never 0 and never mother's last index, and the father-side index is never 0.
C4_MotherIndexNeverLast ==
    PairedAs("father_architecture_layers") =>
        /\ call.draw.alter_layer # 0
        /\ call.draw.alter_layer # Len(architecture_of(call.pre, call.mother)) - 1
        /\ call.draw.changes_layer # 0

\* C4 amended: in father_architecture_layers pairing the mother-side index lies
\* in 1 .. len(mother.architecture)-1 and the father-side index lies in
\* 1 .. len(father.architecture)-1: neither is ever 0, either can be the last index.
C4_IndicesFromOneToLast ==
    PairedAs("father_architecture_layers") =>
        /\ call.draw.alter_layer \in 1 .. (Len(architecture_of(call.pre, call.mother)) - 1)
        /\ call.draw.changes_layer \in 1 .. (Len(architecture_of(call.pre, call.father)) - 1)

\* both draws hit the last index of an architecture that has a body gene
C4_Witness ==
    /\ PairedAs("father_architecture_layers")
    /\ Len(architecture_of(call.pre, call.mother)) = 3
    /\ Len(architecture_of(call.pre, call.father)) = 3
    /\ call.draw.alter_layer = 2
    /\ call.draw.changes_layer = 2

\* C5: father_architecture_layers pairing returns an architecture as long as
\* father's original one, holding father's original gene everywhere but at the
\* chosen father-side index, where it holds the mother gene of the chosen
\* mother-side index; training_parameters and data_processing are father's.
C5_SingleGeneSubstitution ==
    PairedAs("father_architecture_layers") =>
        LET child == architecture_of(Heap, call.individ)
            fathers == architecture_of(call.pre, call.father)
            mothers == architecture_of(call.pre, call.mother)
        IN  /\ call.ret = Returned(call.individ)
            /\ Len(child) = Len(fathers)
            /\ \A i \in range(0, Len(fathers)) :
                  i # call.draw.changes_layer => child[i + 1] = fathers[i + 1]
            /\ child[call.draw.changes_layer + 1] = mothers[call.draw.alter_layer + 1]
            /\ individs[call.individ].training_parameters
                  = call.pre.individs[call.father].training_parameters
            /\ individs[call.individ].data_processing
                  = call.pre.individs[call.father].data_processing
            /\ genotype(Heap, call.individ).training_parameters
                  = genotype(call.pre, call.father).training_parameters
            /\ genotype(Heap, call.individ).data_processing
                  = genotype(call.pre, call.father).data_processing

\* a body gene of a three-gene father was replaced by a different mother gene
C5_Witness ==
    /\ PairedAs("father_architecture_layers")
    /\ Len(architecture_of(call.pre, call.father)) = 3
    /\ call.draw.changes_layer = 1
    /\ architecture_of(Heap, call.individ)[2] # architecture_of(call.pre, call.father)[2]
    /\ architecture_of(Heap, call.individ)[3] = architecture_of(call.pre, call.father)[3]

\* C6: peform_pairing with a pairing_type outside the five recognised tags
\* returns None and raises nothing.
C6_UnknownTypeReturnsNone ==
    (Paired /\ call.type \notin PairingTypes) => call.ret = ReturnedNone

C6_Witness ==
    /\ PairedAs("mother_architecture")
    /\ call.ret.kind = "None"
    /\ IsShell(call.individ)

\* C7: every cradle of the repository, called with a data_type that is neither
\* 'text' nor 'image', fails with ValueError and returns nothing.
C7_UnknownDataTypeRaises ==
    (call.op \in {"cradle", "architecture_interface.cradle"}
        /\ call.type \notin {"text", "image"}) => call.ret.kind = "ValueError"

\* C10: a child returned by an earlier peform_pairing call has the same
\* architecture, training_parameters and data_processing after every later call.
C10_EarlierChildrenKeepTheirGenotype ==
    Paired => \A c \in children \ {call.individ} :
                 c \in 1 .. Len(call.pre.individs) =>
                    genotype(Heap, c) = genotype(call.pre, c)

----------------------------------------------------------------------------
(* Properties of the evaluator, checked under EvalSpec *)

\* C8: once compile or fit has raised in a fold, the call has failed: no score,
\* no reduction of the accumulated predictions, and no fold after the failing one.
C8_FoldFailureFailsTheCall ==
    raised_in # {} =>
        /\ pc = "failed"
        /\ result.kind = "error"
        /\ result.error \in {"ArithmeticError", "Exception"}
        /\ ~reduced
        /\ raised_in = {fold}
        /\ predicted_out = [k \in 1 .. (fold - 1) |-> k]

\* the middle fold of three raised after the first fold had delivered predictions
C8_Witness ==
    /\ kfold_number = 3
    /\ raised_in = {2}
    /\ predicted_out = <<1>>
    /\ pc = "failed"

\* C9: whenever a fit or fit_generator call has ended, by return or by error,
\* the graph and session of every fold it started have been reset.
C9_NoContextHeldAfterTheCall ==
    pc \in {"returned", "failed"} => held = {}

\* C11: after construction and any sequence of device-setter calls, accepted
\* or rejected, the evaluator's device is '/device:CPU:0' or '/device:GPU:0'.
C11_DeviceIsADeviceString ==
    device \in {"/device:CPU:0", "/device:GPU:0"}

====
